---- MODULE Spec2Model ----
(***************************************************************************)
(* Model of src/main.py: the paginated retrieval of a category's plugin    *)
(* listing (get_plugins_info_by_category), the identity parser             *)
(* (get_plugin_info), the idempotent download (download_difypkg) and the   *)
(* semaphore-bounded download batch of process_category.                   *)
(*                                                                         *)
(* Strings are sequences of one-character strings, so that split and       *)
(* replace are computed character by character as Python computes them.    *)
(***************************************************************************)
EXTENDS Integers, Sequences, FiniteSets, TLC

VARIABLES
    \* ---- get_plugin_info called on one record (SpecParse)
    plugin,          \* the record handed to get_plugin_info
    info,            \* its outcome: pending, a triple, or a raised exception
    \* ---- get_plugins_info_by_category
    pg_pc,           \* "idle", "first" (line 83), "loop" (line 90), "returned", "raised"
    payload,         \* [page, page_size] of the POST payload
    plugins,         \* accumulated listing
    total,           \* _total read from the first response
    status_code,     \* status of the latest response
    response_json,   \* parsed body of the latest response
    response_text,   \* body text of the latest response
    posts,           \* every POST issued so far with the response it got, in order
    retval,          \* the returned tuple (status, plugins, error)
    \* ---- process_category from line 280 on
    phase,           \* "idle", "retrieved", "gather", "completed", "returned", "raised"
    retrieval,       \* (status, plugins_info, error) returned by the retrieval
    listing_file,    \* data/<category>.json: not written, or the saved listing
    download_tasks,  \* the identities queued by the for loop of lines 292-299
    semaphore,       \* free slots of asyncio.Semaphore(5)
    task_pc,         \* per task: "queued", "get", "sleep", "done"
    result,          \* per task: the tuple download_difypkg returned, or pending
    gets,            \* per task: number of GETs it issued
    fs,              \* the category's difypkg directory: file name -> bytes, or Absent
    run_log          \* the results and files of the runs completed before this one

vars == <<plugin, info, pg_pc, payload, plugins, total, status_code, response_json,
          response_text, posts, retval, phase, retrieval, listing_file,
          download_tasks, semaphore, task_pc, result, gets, fs, run_log>>

parse_vars == <<plugin, info>>
pag_vars   == <<pg_pc, payload, plugins, total, status_code, response_json,
                response_text, posts, retval>>
proc_vars  == <<phase, retrieval, listing_file, download_tasks, semaphore,
                task_pc, result, gets, fs, run_log>>

\* A plugin record, reduced to the one field the program reads. The field holds
\* a string (has = "str"), holds None (has = "null") or is absent from the
\* dict (has = "missing").
StrRec(s)  == [has |-> "str", latest_package_identifier |-> s]
NullRec    == [has |-> "null", latest_package_identifier |-> <<>>]
MissingRec == [has |-> "missing", latest_package_identifier |-> <<>>]

Absent == "Absent"        \* no file at a path

----------------------------------------------------------------------------
\* Python string helpers, on sequences of characters.

Last(s) == s[Len(s)]

\* The index of the first occurrence of character c in s, or 0.
RECURSIVE IndexOf(_, _, _)
IndexOf(s, c, i) ==
    IF i > Len(s) THEN 0
    ELSE IF s[i] = c THEN i
    ELSE IndexOf(s, c, i + 1)

\* str.split(sep) for a one-character separator: always at least one piece.
RECURSIVE Split(_, _)
Split(s, sep) ==
    LET i == IndexOf(s, sep, 1) IN
    IF i = 0 THEN <<s>>
    ELSE <<SubSeq(s, 1, i - 1)>> \o Split(SubSeq(s, i + 1, Len(s)), sep)

\* str.replace(old, new) for one-character old and new.
Replace(s, old, new) == [i \in 1..Len(s) |-> IF s[i] = old THEN new ELSE s[i]]

----------------------------------------------------------------------------
\* get_plugin_info (lines 236-246).

Raised(exc) ==
    [kind |-> "raised", exc |-> exc, plugin_id |-> <<>>, version |-> <<>>, hash |-> <<>>]
Triple(p, v, h) ==
    [kind |-> "ok", exc |-> "", plugin_id |-> p, version |-> v, hash |-> h]
PendingInfo ==
    [kind |-> "pending", exc |-> "", plugin_id |-> <<>>, version |-> <<>>, hash |-> <<>>]

get_plugin_info(rec) ==
    LET latest_identifier == rec.latest_package_identifier IN
    IF rec.has = "missing" THEN Raised("KeyError")
    ELSE IF rec.has = "null" THEN Raised("AttributeError")
    ELSE Triple(Split(latest_identifier, ":")[1],
                Split(Last(Split(latest_identifier, ":")), "@")[1],
                Last(Split(latest_identifier, "@")))

----------------------------------------------------------------------------
\* Bounds of the model.

MaxLen      == 5   \* longest identifier handed to get_plugin_info in SpecParse
MaxTotal    == 3   \* largest total the server reports
MaxPageSize == 2   \* largest page_size of the payload, and so longest page
MaxTasks    == 6   \* longest listing of a download batch
MaxMixed    == 3   \* longest listing drawn freely from RecordPool
MaxRerun    == 2   \* longest listing whose run is followed by a second run
MaxOld      == 1   \* most files left by earlier runs, unless all are left

\* Characters of the identifiers of SpecParse.
Chars == {"a", "/", "_", ":", "@"}

Strings(n) == UNION {[1..k -> Chars] : k \in 0..n}

\* The inputs of get_plugin_info: a record whose identifier is any string, is
\* None, or is missing.
ParseInputs == {StrRec(s) : s \in Strings(MaxLen)} \cup {NullRec, MissingRec}

\* Identifiers of the records the server lists. IdA and IdB are two plugins
\* whose ids differ in '/' against '_'.
IdA    == <<"a", "/", "b", ":", "1", "@", "h">>
IdB    == <<"a", "_", "b", ":", "1", "@", "h">>
IdC    == <<"c", ":", "1", "@", "h">>

RecordPool  == {StrRec(IdA), StrRec(IdB), StrRec(IdC), MissingRec}
PageRecords == {StrRec(IdA), StrRec(IdC)}

SeqsUpTo(S, n) == UNION {[1..k -> S] : k \in 0..n}

----------------------------------------------------------------------------
\* The search endpoint, as seen by get_plugins_info_by_category (lines 83-87,
\* 110-113). An answer is a response or a transport error (timeout, refused
\* connection). A response has a status, a body text, and a body shape:
\*   "listing"  JSON of the form {data: {total, plugins}};
\*   "json"     JSON without data.total (an error object);
\*   "text"     not JSON (response.json() raises).
\* A 200 response always has the listing shape; its plugins is null or a page
\* of at most page_size records.

ErrTexts == {"error body 1", "error body 2"}

Answer(kind, status, shape, t, isnull, page, text) ==
    [kind |-> kind, status |-> status, shape |-> shape, total |-> t,
     isnull |-> isnull, page |-> page, text |-> text]

NoAnswer == Answer("none", 0, "text", 0, TRUE, <<>>, "")

TransportError == Answer("transport_error", 0, "text", 0, TRUE, <<>>, "")

OkAnswers(P, totals) ==
    {Answer("response", 200, "listing", t, FALSE, pg, "listing body") :
        t \in totals, pg \in SeqsUpTo(PageRecords, P)}
    \cup {Answer("response", 200, "listing", t, TRUE, <<>>, "listing body") :
        t \in totals}

ErrAnswers(totals) ==
    {Answer("response", 500, sh, IF sh = "listing" THEN t ELSE 0, TRUE, <<>>, tx) :
        sh \in {"listing", "json", "text"}, t \in totals, tx \in ErrTexts}

Answers(P, totals) == OkAnswers(P, totals) \cup ErrAnswers(totals) \cup {TransportError}

----------------------------------------------------------------------------
\* get_plugins_info_by_category (lines 59-118).

\* Line 84 (and 111): response.json() raises unless the body is JSON.
JsonRaises(r) == r.shape = "text"

\* Line 85: response_json["data"]["total"] raises unless the body has it.
TotalRaises(r) == r.shape # "listing"

\* Line 93: _plugins is None or len(_plugins) == 0.
PageIsEmpty(r) == r.isnull \/ Len(r.page) = 0

\* Faulty variant: the comparison of line 101 taken as <=.
ShouldExtend_mut(acc, tot) == Len(acc) <= tot

\* Line 101: len(plugins) < _total.
ShouldExtend(acc, tot) == Len(acc) < tot

\* Lines 115-118.
ReturnValue(sc, acc, text) ==
    IF sc = 200 THEN [status |-> TRUE, plugins |-> acc, error |-> "None"]
    ELSE [status |-> FALSE, plugins |-> <<>>, error |-> text]

NoReturn == [status |-> FALSE, plugins |-> <<>>, error |-> "not returned"]

\* Lines 83-87: the first POST and the reading of its response.
PostFirst ==
    /\ pg_pc = "first"
    /\ \E r \in Answers(payload.page_size, 0..MaxTotal) :
        /\ posts' = Append(posts, [page |-> payload.page, answer |-> r])
        /\ IF r.kind = "transport_error" \/ JsonRaises(r) \/ TotalRaises(r)
           THEN /\ pg_pc' = "raised"
                /\ UNCHANGED <<total, status_code, response_json, response_text>>
           ELSE /\ pg_pc' = "loop"
                /\ response_json' = r
                /\ total' = r.total
                /\ status_code' = r.status
                /\ response_text' = r.text
    /\ UNCHANGED <<payload, plugins, retval>>
    /\ UNCHANGED <<parse_vars, proc_vars>>

\* Lines 90, 115-118: the loop condition fails on a non-200 status.
ReturnFailure ==
    /\ pg_pc = "loop"
    /\ status_code # 200
    /\ retval' = ReturnValue(status_code, plugins, response_text)
    /\ pg_pc' = "returned"
    /\ UNCHANGED <<payload, plugins, total, status_code, response_json,
                   response_text, posts>>
    /\ UNCHANGED <<parse_vars, proc_vars>>

\* Lines 93-99, 115-116: an empty page ends the retrieval.
BreakOnEmptyPage ==
    /\ pg_pc = "loop"
    /\ status_code = 200
    /\ PageIsEmpty(response_json)
    /\ retval' = ReturnValue(status_code, plugins, response_text)
    /\ pg_pc' = "returned"
    /\ UNCHANGED <<payload, plugins, total, status_code, response_json,
                   response_text, posts>>
    /\ UNCHANGED <<parse_vars, proc_vars>>

\* Lines 107-108, 115-116: a non-empty page arrives when the total is reached.
BreakOnTotal ==
    /\ pg_pc = "loop"
    /\ status_code = 200
    /\ ~PageIsEmpty(response_json)
    /\ ~ShouldExtend(plugins, total)
    /\ retval' = ReturnValue(status_code, plugins, response_text)
    /\ pg_pc' = "returned"
    /\ UNCHANGED <<payload, plugins, total, status_code, response_json,
                   response_text, posts>>
    /\ UNCHANGED <<parse_vars, proc_vars>>

\* Faulty variant: only the first record of the page is appended.
Extended_mut(acc, page) == acc \o <<page[1]>>

\* Line 102: plugins.extend(_plugins), the whole page.
Extended(acc, page) == acc \o page

\* Faulty variant: the page number is not advanced.
NextPage_mut(p) == p

\* Line 109: payload["page"] += 1.
NextPage(p) == p + 1

\* Lines 101-106, 109-113: append the page, then POST the next page and read
\* its response. data.total of this response is never read; the model lets it
\* repeat the first total.
ExtendAndPostNext ==
    /\ pg_pc = "loop"
    /\ status_code = 200
    /\ ~PageIsEmpty(response_json)
    /\ ShouldExtend(plugins, total)
    /\ plugins' = Extended(plugins, response_json.page)
    /\ payload' = [payload EXCEPT !.page = NextPage(@)]
    /\ \E r \in Answers(payload.page_size, {total}) :
        /\ posts' = Append(posts, [page |-> payload'.page, answer |-> r])
        /\ IF r.kind = "transport_error" \/ JsonRaises(r)
           THEN /\ pg_pc' = "raised"
                /\ UNCHANGED <<status_code, response_json, response_text>>
           ELSE /\ pg_pc' = "loop"
                /\ response_json' = r
                /\ status_code' = r.status
                /\ response_text' = r.text
    /\ UNCHANGED <<total, retval>>
    /\ UNCHANGED <<parse_vars, proc_vars>>

----------------------------------------------------------------------------
\* download_difypkg (lines 193-233) and the files it writes.

\* Lines 211-213: the artifact's file name inside the category directory.
difypkg_file(t) ==
    Replace(t.plugin_id, "/", "_") \o <<"_">> \o t.version \o <<"_">> \o t.hash
        \o <<".difypkg">>

\* Line 217: the download URL names the plugin id and the version only.
download_url(t) == t.plugin_id \o <<"/">> \o t.version \o <<"/download">>

\* Bytes left in a file by earlier runs.
OldBytes == "old bytes"

\* The content of a file that was opened with mode "wb" (line 223) and not
\* written in full: empty, or a proper prefix of the body.
Truncated == "truncated bytes"

\* The listings of a batch with many records: n distinct plugins.
Digit(i) == <<"0", "1", "2", "3", "4", "5", "6", "7", "8", "9">>[i + 1]
IdOf(i)  == <<"p", Digit(i), ":", "1", "@", "h">>
ManyRecords(n) == [i \in 1..n |-> StrRec(IdOf(i))]

\* The bodies the download endpoint may serve at a URL: the plugins of
\* RecordPool may be served different bytes from one GET to the next, the
\* plugins of ManyRecords are always served the same bytes.
BodiesAt(url) ==
    IF url[1] = "p" THEN {"bytes 1"} ELSE {"bytes 1", "bytes 2"}

AllRecords == RecordPool \cup {StrRec(IdOf(i)) : i \in 1..MaxTasks}
FileNames  ==
    {difypkg_file(get_plugin_info(r)) : r \in {x \in AllRecords : x.has = "str"}}

\* Faulty variant: the existence check of line 214 never finds the file.
FileExists_mut(files, f) == FALSE

\* Faulty variant: the check looks for any file in the directory, not for the
\* artifact's own file.
FileExists_dir(files, f) == \E g \in DOMAIN files : files[g] # Absent

\* Faulty variant: a file that was not written in full does not count.
FileExists_complete(files, f) == files[f] # Absent /\ files[f] # Truncated

\* Line 214: difypkg_file.exists().
FileExists(files, f) == files[f] # Absent

PendingResult == [status |-> "Pending", error |-> "None"]
\* Line 216: return None, None.
AlreadyPresent == [status |-> "None", error |-> "None"]
\* Line 226: return True, None.
Downloaded == [status |-> "True", error |-> "None"]
\* Lines 230 and 233: return False, response_text / return False, str(e); the
\* two error texts are not told apart.
Failed == [status |-> "False", error |-> "text"]

----------------------------------------------------------------------------
\* process_category (lines 253-321), from the return of the retrieval on.

SemaphoreLimit == 5

\* data/<category>.json: not written yet, or holding a listing (lines 134-135).
NoFile == [exists |-> FALSE, content |-> <<>>]
Saved(listing) == [exists |-> TRUE, content |-> listing]

Tasks == 1..Len(download_tasks)

\* Faulty variant: acquire does not wait for a free slot.
CanAcquire_mut(i) ==
    /\ task_pc[i] = "queued"
    /\ \A j \in 1..(i - 1) : task_pc[j] # "queued"

\* Faulty variant: the slot of a sleeping download counts as free, as if the
\* sleep of line 308 were outside `async with semaphore`.
CanAcquire_sleepers(i) ==
    /\ task_pc[i] = "queued"
    /\ semaphore + Cardinality({j \in Tasks : task_pc[j] = "sleep"}) > 0
    /\ \A j \in 1..(i - 1) : task_pc[j] # "queued"

\* asyncio.Semaphore.acquire: a free slot, and no earlier waiter (waiters are
\* woken in FIFO order, and gather starts the tasks in listing order).
CanAcquire(i) ==
    /\ task_pc[i] = "queued"
    /\ semaphore > 0
    /\ \A j \in 1..(i - 1) : task_pc[j] # "queued"

InFlight == {i \in Tasks : task_pc[i] = "get"}
Holding  == {i \in Tasks : task_pc[i] \in {"get", "sleep"}}

\* Lines 276-279, the retrieval returning: its tuple is bound to status,
\* plugins_info and error; the locals of the call are gone.
RetrievalReturns ==
    /\ phase = "idle"
    /\ pg_pc = "returned"
    /\ retrieval' = retval
    /\ phase' = "retrieved"
    /\ pg_pc' = "idle"
    /\ payload' = [page |-> 1, page_size |-> 1]
    /\ plugins' = <<>>
    /\ total' = 0
    /\ status_code' = 0
    /\ response_json' = NoAnswer
    /\ response_text' = ""
    /\ posts' = <<>>
    /\ retval' = NoReturn
    /\ UNCHANGED <<listing_file, download_tasks, semaphore, task_pc, result, gets,
                   fs, run_log>>
    /\ UNCHANGED parse_vars

\* Lines 276-278, the retrieval raising: nothing catches the exception in
\* process_category, which ends with it.
RetrievalRaises ==
    /\ phase = "idle"
    /\ pg_pc = "raised"
    /\ phase' = "raised"
    /\ pg_pc' = "idle"
    /\ payload' = [page |-> 1, page_size |-> 1]
    /\ plugins' = <<>>
    /\ total' = 0
    /\ status_code' = 0
    /\ response_json' = NoAnswer
    /\ response_text' = ""
    /\ posts' = <<>>
    /\ UNCHANGED <<retval, retrieval, listing_file, download_tasks, semaphore,
                   task_pc, result, gets, fs, run_log>>
    /\ UNCHANGED parse_vars

\* Faulty variant: the listing is saved whatever the status.
ListingAfterFailure_mut(file, r) == Saved(r.plugins)

\* data/<category>.json after a failed retrieval (lines 285-287): untouched.
ListingAfterFailure(file, r) == file

\* Lines 280, 285-287: the retrieval failed; log and return.
ReturnOnRetrievalFailure ==
    /\ phase = "retrieved"
    /\ ~retrieval.status
    /\ phase' = "returned"
    /\ listing_file' = ListingAfterFailure(listing_file, retrieval)
    /\ UNCHANGED <<retrieval, download_tasks, semaphore, task_pc,
                   result, gets, fs>>
    /\ UNCHANGED <<parse_vars, pag_vars, run_log>>

\* Lines 292-299: the identities of the listing, or the first exception raised
\* by get_plugin_info.
Identities(listing) == [i \in 1..Len(listing) |-> get_plugin_info(listing[i])]

DerivationRaises(listing) ==
    \E i \in 1..Len(listing) : get_plugin_info(listing[i]).kind = "raised"

\* Lines 280-284, 290-299 when a record's identity cannot be derived: the
\* listing is saved, then get_plugin_info raises out of process_category.
SaveAndRaise ==
    /\ phase = "retrieved"
    /\ retrieval.status
    /\ DerivationRaises(retrieval.plugins)
    /\ listing_file' = Saved(retrieval.plugins)
    /\ phase' = "raised"
    /\ UNCHANGED <<retrieval, download_tasks, semaphore, task_pc, result, gets, fs>>
    /\ UNCHANGED <<parse_vars, pag_vars, run_log>>

\* Lines 280-284, 290-314: save the listing, queue one download per record,
\* create the semaphore and hand the tasks to gather.
SaveAndQueue ==
    /\ phase = "retrieved"
    /\ retrieval.status
    /\ ~DerivationRaises(retrieval.plugins)
    /\ listing_file' = Saved(retrieval.plugins)
    /\ download_tasks' = Identities(retrieval.plugins)
    /\ semaphore' = SemaphoreLimit
    /\ task_pc' = [i \in 1..Len(retrieval.plugins) |-> "queued"]
    /\ result' = [i \in 1..Len(retrieval.plugins) |-> PendingResult]
    /\ gets' = [i \in 1..Len(retrieval.plugins) |-> 0]
    /\ phase' = "gather"
    /\ UNCHANGED <<retrieval, fs>>
    /\ UNCHANGED <<parse_vars, pag_vars, run_log>>

\* Lines 305-306, 211-216, 307, 309: the task takes a slot, finds its file,
\* returns (None, None) and gives the slot back without sleeping.
AcquireAndSkip(i) ==
    /\ phase = "gather"
    /\ CanAcquire(i)
    /\ FileExists(fs, difypkg_file(download_tasks[i]))
    /\ result' = [result EXCEPT ![i] = AlreadyPresent]
    /\ task_pc' = [task_pc EXCEPT ![i] = "done"]
    /\ UNCHANGED <<phase, retrieval, listing_file, download_tasks, semaphore, gets, fs>>
    /\ UNCHANGED <<parse_vars, pag_vars, run_log>>

\* Lines 305-306, 211-220: the task takes a slot, finds no file and issues
\* the GET.
AcquireAndGet(i) ==
    /\ phase = "gather"
    /\ CanAcquire(i)
    /\ ~FileExists(fs, difypkg_file(download_tasks[i]))
    /\ semaphore' = semaphore - 1
    /\ gets' = [gets EXCEPT ![i] = @ + 1]
    /\ task_pc' = [task_pc EXCEPT ![i] = "get"]
    /\ UNCHANGED <<phase, retrieval, listing_file, download_tasks, result, fs>>
    /\ UNCHANGED <<parse_vars, pag_vars, run_log>>

\* Lines 221-226, 307-308: status 200; the body is written to the file
\* (mode "wb"), the task returns (True, None) and starts its sleep.
Respond200(i) ==
    /\ phase = "gather"
    /\ task_pc[i] = "get"
    /\ \E body \in BodiesAt(download_url(download_tasks[i])) :
        fs' = [fs EXCEPT ![difypkg_file(download_tasks[i])] = body]
    /\ result' = [result EXCEPT ![i] = Downloaded]
    /\ task_pc' = [task_pc EXCEPT ![i] = "sleep"]
    /\ UNCHANGED <<phase, retrieval, listing_file, download_tasks, semaphore, gets>>
    /\ UNCHANGED <<parse_vars, pag_vars, run_log>>

\* Faulty variant: the file is opened for writing before the status is looked at,
\* so a failed download leaves an empty file.
AfterFailure_creates(files, f) == [files EXCEPT ![f] = "no bytes"]

\* The file system after a GET that did not end in status 200 (lines 227-233).
AfterFailure(files, f) == files

\* Lines 227-233, 307-308: the response has another status (227-230), or the
\* GET or the reading of its body raised, by timeout or connection error
\* (231-233); the task returns (False, text) and starts its sleep.
RespondFailure(i) ==
    /\ phase = "gather"
    /\ task_pc[i] = "get"
    /\ fs' = AfterFailure(fs, difypkg_file(download_tasks[i]))
    /\ result' = [result EXCEPT ![i] = Failed]
    /\ task_pc' = [task_pc EXCEPT ![i] = "sleep"]
    /\ UNCHANGED <<phase, retrieval, listing_file, download_tasks, semaphore, gets>>
    /\ UNCHANGED <<parse_vars, pag_vars, run_log>>

\* Faulty variant: the slot is not given back.
Released_mut(s) == s

\* The semaphore's value when a task leaves `async with semaphore` (line 305).
Released(s) == s + 1

\* Lines 308-309: the sleep ends, the slot is released, the task returns.
EndSleep(i) ==
    /\ phase = "gather"
    /\ task_pc[i] = "sleep"
    /\ semaphore' = Released(semaphore)
    /\ task_pc' = [task_pc EXCEPT ![i] = "done"]
    /\ UNCHANGED <<phase, retrieval, listing_file, download_tasks, result, gets, fs>>
    /\ UNCHANGED <<parse_vars, pag_vars, run_log>>

\* Lines 311-321: gather returns once every task has returned.
FinishGather ==
    /\ phase = "gather"
    /\ \A i \in Tasks : task_pc[i] = "done"
    /\ phase' = "completed"
    /\ UNCHANGED <<retrieval, listing_file, download_tasks, semaphore, task_pc,
                   result, gets, fs>>
    /\ UNCHANGED <<parse_vars, pag_vars, run_log>>

\* Lines 222-224, the process dying in them: the response had status 200, the
\* file was opened for writing, and the run ends (kill, power loss) before
\* file.write has put the whole body on disk.
CrashMidWrite(i) ==
    /\ phase = "gather"
    /\ task_pc[i] = "get"
    /\ fs' = [fs EXCEPT ![difypkg_file(download_tasks[i])] = Truncated]
    /\ phase' = "crashed"
    /\ UNCHANGED <<retrieval, listing_file, download_tasks, semaphore, task_pc,
                   result, gets>>
    /\ UNCHANGED <<parse_vars, pag_vars, run_log>>

\* Lines 357-360, run again: the program is started a second time on the same
\* directory, after the first run completed or crashed. The first run's end,
\* results and files are logged; the retrieval is taken to return the same
\* listing.
RunAgain ==
    /\ phase \in {"completed", "crashed"}
    /\ run_log = <<>>
    /\ Len(download_tasks) <= MaxRerun
    /\ run_log' = <<[phase |-> phase, task_pc |-> task_pc, result |-> result,
                    gets |-> gets, fs |-> fs]>>
    /\ phase' = "retrieved"
    /\ listing_file' = NoFile
    /\ download_tasks' = <<>>
    /\ semaphore' = SemaphoreLimit
    /\ task_pc' = <<>>
    /\ result' = <<>>
    /\ gets' = <<>>
    /\ UNCHANGED <<retrieval, fs>>
    /\ UNCHANGED <<parse_vars, pag_vars>>

----------------------------------------------------------------------------
\* Initial states and specifications.

ParseIdle == plugin = MissingRec /\ info = PendingInfo

PagAt(pc, P) ==
    /\ pg_pc = pc
    /\ payload = [page |-> 1, page_size |-> P]
    /\ plugins = <<>>
    /\ total = 0
    /\ status_code = 0
    /\ response_json = NoAnswer
    /\ response_text = ""
    /\ posts = <<>>
    /\ retval = NoReturn

ProcIdle ==
    /\ phase = "idle"
    /\ retrieval = NoReturn
    /\ listing_file = NoFile
    /\ download_tasks = <<>>
    /\ semaphore = SemaphoreLimit
    /\ task_pc = <<>>
    /\ result = <<>>
    /\ gets = <<>>
    /\ fs = [f \in FileNames |-> Absent]
    /\ run_log = <<>>

\* ---- SpecParse: get_plugin_info applied to one record.
Parse ==
    /\ info.kind = "pending"
    /\ info' = get_plugin_info(plugin)
    /\ UNCHANGED <<plugin, pag_vars, proc_vars>>

InitParse ==
    /\ plugin \in ParseInputs
    /\ info = PendingInfo
    /\ PagAt("idle", 1)
    /\ ProcIdle

NextParse == Parse

SpecParse == InitParse /\ [][NextParse]_vars

\* ---- SpecPag: one call of get_plugins_info_by_category. The payload's
\* page_size (40 at line 73) is drawn from 1..MaxPageSize.
InitPag ==
    /\ ParseIdle
    /\ \E P \in 1..MaxPageSize : PagAt("first", P)
    /\ ProcIdle

NextPag ==
    \/ PostFirst
    \/ ReturnFailure
    \/ BreakOnEmptyPage
    \/ BreakOnTotal
    \/ ExtendAndPostNext

SpecPag == InitPag /\ [][NextPag]_vars

\* ---- FairSpecPag: the same call with the scheduling of the event loop. Every
\* POST ends in a response or in an exception (ClientTimeout, lines 82-83 and
\* 110) and the sleep of line 106 ends, so the call's enabled step is
\* eventually taken.
FairSpecPag == InitPag /\ [][NextPag]_vars /\ WF_vars(NextPag)

\* ---- Spec: process_category from line 280 on, the retrieval having returned
\* a failure or any listing, on a directory holding some of the listing's
\* files from earlier runs.
Listings == SeqsUpTo(RecordPool, MaxMixed) \cup {ManyRecords(MaxTasks)}

Retrievals ==
    {ReturnValue(200, l, "") : l \in Listings}
    \cup {ReturnValue(500, <<>>, tx) : tx \in ErrTexts}

FilesOf(listing) ==
    {difypkg_file(get_plugin_info(listing[i])) :
        i \in {j \in 1..Len(listing) : listing[j].has = "str"}}

\* The files earlier runs left: at most MaxOld of the listing's, or all.
OldFileSets(listing) ==
    {S \in SUBSET FilesOf(listing) :
        Cardinality(S) <= MaxOld \/ S = FilesOf(listing)}

Init ==
    /\ ParseIdle
    /\ PagAt("idle", 1)
    /\ phase = "retrieved"
    /\ retrieval \in Retrievals
    /\ listing_file = NoFile
    /\ download_tasks = <<>>
    /\ semaphore = SemaphoreLimit
    /\ task_pc = <<>>
    /\ result = <<>>
    /\ gets = <<>>
    /\ \E S \in OldFileSets(retrieval.plugins) :
        fs = [f \in FileNames |-> IF f \in S THEN OldBytes ELSE Absent]
    /\ run_log = <<>>

\* One step of download_with_semaphore(task i) (lines 304-309).
TaskStep(i) ==
    /\ i \in Tasks
    /\ \/ AcquireAndSkip(i)
       \/ AcquireAndGet(i)
       \/ Respond200(i)
       \/ RespondFailure(i)
       \/ EndSleep(i)

Next ==
    \/ ReturnOnRetrievalFailure
    \/ SaveAndRaise
    \/ SaveAndQueue
    \/ \E i \in Tasks : AcquireAndSkip(i)
    \/ \E i \in Tasks : AcquireAndGet(i)
    \/ \E i \in Tasks : Respond200(i)
    \/ \E i \in Tasks : RespondFailure(i)
    \/ \E i \in Tasks : EndSleep(i)
    \/ FinishGather
    \/ RunAgain

Spec == Init /\ [][Next]_vars

\* ---- SpecRun: process_category from its start, on an empty directory: the
\* retrieval of SpecPag, then the saving of the listing and the download
\* batch. The server lists PageRecords only, so every identity is derivable;
\* pages hold one record, so the listing has at most MaxTotal records.
InitRun ==
    /\ ParseIdle
    /\ PagAt("first", 1)
    /\ ProcIdle

NextRun ==
    \/ PostFirst
    \/ ReturnFailure
    \/ BreakOnEmptyPage
    \/ BreakOnTotal
    \/ ExtendAndPostNext
    \/ RetrievalReturns
    \/ RetrievalRaises
    \/ ReturnOnRetrievalFailure
    \/ SaveAndQueue
    \/ \E i \in Tasks : AcquireAndSkip(i)
    \/ \E i \in Tasks : AcquireAndGet(i)
    \/ \E i \in Tasks : Respond200(i)
    \/ \E i \in Tasks : RespondFailure(i)
    \/ \E i \in Tasks : EndSleep(i)
    \/ FinishGather

SpecRun == InitRun /\ [][NextRun]_vars

\* ---- SpecCrash: the runs of Spec that are followed by a second run, with
\* the first or the second run possibly crashing in the middle of an
\* artifact's write.
InitCrash ==
    /\ Init
    /\ retrieval.status
    /\ Len(retrieval.plugins) <= MaxRerun

NextCrash ==
    \/ SaveAndRaise
    \/ SaveAndQueue
    \/ \E i \in Tasks : AcquireAndSkip(i)
    \/ \E i \in Tasks : AcquireAndGet(i)
    \/ \E i \in Tasks : Respond200(i)
    \/ \E i \in Tasks : RespondFailure(i)
    \/ \E i \in Tasks : CrashMidWrite(i)
    \/ \E i \in Tasks : EndSleep(i)
    \/ FinishGather
    \/ RunAgain

SpecCrash == InitCrash /\ [][NextCrash]_vars

\* ---- FairSpec: one batch longer than the semaphore's limit, on a directory
\* that is empty or already holds every file, with the scheduling of the
\* event loop. Every GET ends in a response or in an exception
\* (ClientTimeout(total=10), line 219), every sleep ends (line 308), and the
\* loop runs every task that can run; so each task's enabled step is
\* eventually taken, and so are the steps of process_category itself.
InitFair ==
    /\ Init
    /\ retrieval.plugins = ManyRecords(MaxTasks)
    /\ \/ \A f \in FileNames : fs[f] = Absent
       \/ \A f \in FilesOf(retrieval.plugins) : fs[f] # Absent

NextFair ==
    \/ SaveAndQueue
    \/ \E i \in Tasks : AcquireAndSkip(i)
    \/ \E i \in Tasks : AcquireAndGet(i)
    \/ \E i \in Tasks : Respond200(i)
    \/ \E i \in Tasks : RespondFailure(i)
    \/ \E i \in Tasks : EndSleep(i)
    \/ FinishGather

FairSpec ==
    /\ InitFair
    /\ [][NextFair]_vars
    /\ \A i \in 1..MaxTasks : WF_vars(TaskStep(i))
    /\ WF_vars(SaveAndQueue)
    /\ WF_vars(FinishGather)

----------------------------------------------------------------------------
\* Properties of get_plugins_info_by_category (checked under SpecPag).

Ceil(t, p) == (t + p - 1) \div p

FirstAnswer == posts[1].answer

\* Every POST so far was answered with HTTP 200.
AnsweredOk ==
    \A k \in 1..Len(posts) :
        posts[k].answer.kind = "response" /\ posts[k].answer.status = 200

\* The number of records of page k when a total of t is served in full pages
\* of p records.
FullLen(k, t, p) ==
    LET remaining == t - (k - 1) * p IN
    IF remaining >= p THEN p ELSE IF remaining > 0 THEN remaining ELSE 0

\* Pages 1..ceil(T/P) were all full: P records each, the remainder on the last.
FullPages ==
    /\ AnsweredOk
    /\ \A k \in 1..Len(posts) :
        k <= Ceil(FirstAnswer.total, payload.page_size) =>
            /\ ~posts[k].answer.isnull
            /\ Len(posts[k].answer.page) =
                   FullLen(k, FirstAnswer.total, payload.page_size)

\* C1: with a total T >= 1 served in full pages of P records and every answer
\* HTTP 200, the retrieval has issued exactly ceil(T/P) page requests when it
\* returns.
C1_FullPagesTakeCeilRequests ==
    (pg_pc = "returned" /\ FirstAnswer.total >= 1 /\ FullPages)
        => Len(posts) = Ceil(FirstAnswer.total, payload.page_size)

\* C2: when the first response is HTTP 200 with total = 0, only one page
\* request is ever issued, nothing is raised, and the retrieval returns
\* success with an empty listing, whatever the first page's plugins array.
C2_ZeroTotalOneRequest ==
    (Len(posts) >= 1 /\ FirstAnswer.kind = "response" /\ FirstAnswer.status = 200
        /\ FirstAnswer.total = 0)
        => /\ Len(posts) = 1
           /\ pg_pc \in {"loop", "returned"}
           /\ pg_pc = "returned" =>
                /\ retval.status
                /\ retval.plugins = <<>>
                /\ retval.error = "None"

\* A total of 0 with a non-empty first page, returned.
C2_Witness ==
    /\ pg_pc = "returned"
    /\ FirstAnswer.status = 200
    /\ FirstAnswer.total = 0
    /\ ~FirstAnswer.isnull
    /\ Len(FirstAnswer.page) > 0

\* C3: once a page request (the first or a later one) was answered with a
\* non-200 status, the retrieval ends by returning (False, [], body of that
\* response).
C3_Non200ReturnsFailure ==
    \A k \in 1..Len(posts) :
        (posts[k].answer.kind = "response" /\ posts[k].answer.status # 200
            /\ pg_pc \notin {"first", "loop"})
            => /\ pg_pc = "returned"
               /\ ~retval.status
               /\ retval.plugins = <<>>
               /\ retval.error = posts[k].answer.text

\* The concatenation of the pages carried by the answers to POSTs 1..k.
RECURSIVE ConcatPages(_)
ConcatPages(k) ==
    IF k = 0 THEN <<>> ELSE ConcatPages(k - 1) \o posts[k].answer.page

\* C11: once the accumulated records have reached the total of the first
\* response, no further page is requested: every POST after the first is
\* issued while the records accumulated from the pages before it are still
\* fewer than the total.
C11_NoPostAfterTotalReached ==
    \A k \in 2..Len(posts) : Len(ConcatPages(k - 1)) < FirstAnswer.total

\* The first response carried a total (line 85 did not raise).
FirstHasTotal ==
    /\ Len(posts) >= 1
    /\ FirstAnswer.kind = "response"
    /\ FirstAnswer.shape = "listing"

Terminated == pg_pc \in {"returned", "raised"}

\* C18: when the first response reports a total T, at most T + 1 pages are
\* ever requested, the k-th request asks for page k, and the call terminates:
\* it returns, or raises on an answer it cannot read.
C18_TerminatesWithinTotalPlusOne ==
    /\ [](FirstHasTotal =>
            /\ Len(posts) <= FirstAnswer.total + 1
            /\ \A k \in 1..Len(posts) : posts[k].page = k)
    /\ (pg_pc = "first") ~>
            (/\ Terminated
             /\ pg_pc = "raised" =>
                    \/ Last(posts).answer.kind = "transport_error"
                    \/ Last(posts).answer.shape # "listing")

\* The largest total, served one record per page: T + 1 requests, returned.
C18_Witness ==
    /\ pg_pc = "returned"
    /\ FirstAnswer.total = MaxTotal
    /\ Len(posts) = MaxTotal + 1
    /\ retval.status
    /\ Len(retval.plugins) = MaxTotal

\* C19: a successful return carries the pages 1..k in order and whole, k being
\* every page received but the last; its length is at least the total or the
\* last page received was empty or null; and it is shorter than the total
\* plus the length of the last page appended.
C19_ListingIsWholePages ==
    (pg_pc = "returned" /\ retval.status) =>
        LET k == Len(posts) - 1 IN
        /\ retval.plugins = ConcatPages(k)
        /\ \/ Len(retval.plugins) >= FirstAnswer.total
           \/ PageIsEmpty(Last(posts).answer)
        /\ k >= 1 =>
              Len(retval.plugins) < FirstAnswer.total + Len(posts[k].answer.page)
        /\ k = 0 => retval.plugins = <<>>

\* A listing longer than the total: the last page appended overshot it.
C19_Witness ==
    /\ pg_pc = "returned"
    /\ retval.status
    /\ Len(posts) >= 3
    /\ Len(retval.plugins) > FirstAnswer.total

----------------------------------------------------------------------------
\* Properties of get_plugin_info (checked under SpecParse).

Count(s, c) == Cardinality({i \in 1..Len(s) : s[i] = c})

\* s has the form <plugin_id>:<version>@<hash>: one ':' and, after it, one
\* '@', around three non-empty parts.
WellFormed(s) ==
    /\ Count(s, ":") = 1
    /\ Count(s, "@") = 1
    /\ 1 < IndexOf(s, ":", 1)
    /\ IndexOf(s, ":", 1) + 1 < IndexOf(s, "@", 1)
    /\ IndexOf(s, "@", 1) < Len(s)

PartsOf(s) ==
    Triple(SubSeq(s, 1, IndexOf(s, ":", 1) - 1),
           SubSeq(s, IndexOf(s, ":", 1) + 1, IndexOf(s, "@", 1) - 1),
           SubSeq(s, IndexOf(s, "@", 1) + 1, Len(s)))

\* C7: get_plugin_info maps an identifier of the form
\* <plugin_id>:<version>@<hash> to that triple, and fails on every other input
\* (an identifier missing '@' or ':' among them) instead of returning a triple.
C7_ParsesOrFails ==
    info.kind # "pending" =>
        IF plugin.has = "str" /\ WellFormed(plugin.latest_package_identifier)
        THEN info = PartsOf(plugin.latest_package_identifier)
        ELSE info.kind = "raised"

----------------------------------------------------------------------------
\* Properties of download_difypkg and of the batch (checked under Spec, the
\* liveness one under FairSpec).

FileOf(i) == difypkg_file(download_tasks[i])

InSecondRun == run_log # <<>>

\* C4: a download that returned (True, None) in the first run returns
\* (None, None) when the same listing is run again: in the second run it never
\* issues a GET, and the bytes of its file stay those the first run left.
C4_SecondCallAlreadyPresent ==
    InSecondRun =>
        \A i \in Tasks :
            run_log[1].result[i] = Downloaded =>
                /\ task_pc[i] \in {"queued", "done"}
                /\ gets[i] = 0
                /\ task_pc[i] = "done" => result[i] = AlreadyPresent
                /\ fs[FileOf(i)] = run_log[1].fs[FileOf(i)]

\* The second call has returned, after a first call that downloaded.
C4_Witness ==
    /\ InSecondRun
    /\ \E i \in Tasks :
        /\ run_log[1].result[i] = Downloaded
        /\ run_log[1].gets[i] = 1
        /\ task_pc[i] = "done"
        /\ result[i] = AlreadyPresent

\* C5: at most 5 GETs of a batch are in flight at the same time.
C5_AtMostFiveInFlight == Cardinality(InFlight) <= SemaphoreLimit

\* Five GETs in flight while a sixth download waits for a slot.
C5_Witness ==
    /\ Cardinality(InFlight) = SemaphoreLimit
    /\ \E i \in Tasks : task_pc[i] = "queued"

\* C6: once the batch is handed to gather, it completes: every download has
\* reported its own outcome and every slot, those of the failed downloads
\* included, has been released.
C6_BatchCompletes ==
    (phase = "gather") ~>
        (/\ phase = "completed"
         /\ \A i \in Tasks : result[i] \in {AlreadyPresent, Downloaded, Failed}
         /\ semaphore = SemaphoreLimit)

\* A completed batch longer than the ceiling in which one download failed
\* and all the others downloaded.
C6_Witness ==
    /\ phase = "completed"
    /\ Len(download_tasks) > SemaphoreLimit
    /\ \E i \in Tasks :
        /\ result[i] = Failed
        /\ \A j \in Tasks \ {i} : result[j] = Downloaded

\* The records of a listing whose identity can be derived.
Derivable(listing) == SelectSeq(listing, LAMBDA r : get_plugin_info(r).kind = "ok")

\* C8: when get_plugin_info fails on a record of the listing, only that record
\* is skipped: the downloads of all the other records are queued and run.
C8_BadRecordSkipped ==
    (phase \notin {"idle", "retrieved"} /\ retrieval.status
        /\ DerivationRaises(retrieval.plugins))
        => /\ phase \in {"gather", "completed"}
           /\ download_tasks = Identities(Derivable(retrieval.plugins))

\* C9: the step in which a download fails (its GET came back with a non-200
\* status or raised) leaves every file as it was.
C9_FailureLeavesFiles ==
    [][\A i \in Tasks :
        (task_pc[i] = "get" /\ task_pc'[i] = "sleep" /\ result'[i] = Failed)
            => fs' = fs]_vars

\* A download has failed and its file does not exist.
C9_Witness ==
    \E i \in Tasks : result[i] = Failed /\ ~FileExists(fs, FileOf(i))

\* C10: over any interleaving of downloads, a file that exists is never
\* deleted and never overwritten.
C10_NeverOverwritten ==
    [][\A f \in FileNames : fs[f] # Absent => fs'[f] = fs[f]]_vars

----------------------------------------------------------------------------
\* Properties of the batch's schedule (checked under Spec).

Sleeping == {i \in Tasks : task_pc[i] = "sleep"}

\* C12: a download that was attempted (Downloaded or Failed) keeps its slot
\* while it sleeps, and the slot is free again only when the sleep ends; a
\* download that is AlreadyPresent never sleeps and holds no slot afterwards.
\* So the free slots are the limit less the downloads in flight or asleep,
\* never fewer than none.
C12_SlotHeldThroughSleep ==
    /\ [](phase = "gather" =>
            /\ semaphore = SemaphoreLimit - Cardinality(Holding)
            /\ semaphore >= 0
            /\ \A i \in Sleeping : result[i] \in {Downloaded, Failed})
    /\ [][\A i \in Tasks :
            /\ (i \in DOMAIN result' /\ result[i] = PendingResult
                    /\ result'[i] \in {Downloaded, Failed})
                 => (task_pc'[i] = "sleep" /\ semaphore' = semaphore)
            /\ (i \in DOMAIN result' /\ result[i] = PendingResult
                    /\ result'[i] = AlreadyPresent)
                 => (task_pc[i] = "queued" /\ task_pc'[i] = "done"
                        /\ semaphore' = semaphore)
            /\ (i \in DOMAIN task_pc' /\ task_pc[i] = "sleep"
                    /\ task_pc'[i] # "sleep")
                 => (task_pc'[i] = "done" /\ semaphore' = semaphore + 1)]_vars

\* Five downloads, all attempted, all asleep, none in flight: no slot is free
\* and a sixth download waits.
C12_Witness ==
    /\ Cardinality(Sleeping) = SemaphoreLimit
    /\ InFlight = {}
    /\ semaphore = 0
    /\ \E i \in Tasks : task_pc[i] = "queued"

----------------------------------------------------------------------------
\* Properties of retries, duplicates and file names (checked under Spec).

\* C14: in one run a record causes at most one GET, whatever its outcome. In
\* a later run a download issues its GET exactly when its file is absent at
\* its existence check; so, when the later run completes, every file that was
\* absent when it started (those of failed downloads included) has been
\* requested again, and no download whose file existed has issued a GET.
C14_NoRetryInRunRetryOnLaterRun ==
    /\ [](\A i \in Tasks : gets[i] <= 1)
    /\ [][InSecondRun =>
            \A i \in Tasks :
                (task_pc[i] = "queued" /\ task_pc'[i] # "queued") =>
                    IF fs[FileOf(i)] = Absent
                    THEN task_pc'[i] = "get" /\ gets'[i] = gets[i] + 1
                    ELSE result'[i] = AlreadyPresent /\ gets'[i] = gets[i]]_vars
    /\ []((InSecondRun /\ phase = "completed") =>
            \A i \in Tasks :
                IF run_log[1].fs[FileOf(i)] = Absent
                THEN \E j \in Tasks : FileOf(j) = FileOf(i) /\ gets[j] = 1
                ELSE gets[i] = 0 /\ result[i] = AlreadyPresent)

\* A second run has completed: a download that failed in the first run was
\* attempted again, one that had downloaded was not.
C14_Witness ==
    /\ InSecondRun
    /\ phase = "completed"
    /\ \E i \in Tasks, j \in Tasks :
        /\ run_log[1].result[i] = Failed
        /\ run_log[1].gets[i] = 1
        /\ gets[i] = 1
        /\ run_log[1].result[j] = Downloaded
        /\ gets[j] = 0

\* C15: the batch issues at most one GET per distinct artifact, also when two
\* records of the listing carry the same identifier.
C15_OneGetPerArtifact ==
    \A i \in Tasks, j \in Tasks :
        (i # j /\ download_tasks[i] = download_tasks[j]) => gets[i] + gets[j] <= 1

\* C16: two distinct identities of a batch never map to the same file name.
C16_FilePathInjective ==
    \A i \in Tasks, j \in Tasks :
        download_tasks[i] # download_tasks[j] => FileOf(i) # FileOf(j)

----------------------------------------------------------------------------
\* Properties of a crash in the middle of a write (checked under SpecCrash).

AfterCrash == InSecondRun /\ run_log[1].phase = "crashed"

\* C17: when a run crashed between opening an artifact's file and writing the
\* whole body, the truncated file is still there in the next run, and every
\* download of the next run that maps to it returns (None, None) without a
\* GET: the file keeps its truncated content.
C17_TruncatedFileIsAlreadyPresent ==
    AfterCrash =>
        \A i \in Tasks :
            run_log[1].fs[FileOf(i)] = Truncated =>
                /\ fs[FileOf(i)] = Truncated
                /\ gets[i] = 0
                /\ task_pc[i] \in {"queued", "done"}
                /\ task_pc[i] = "done" => result[i] = AlreadyPresent

\* The run after a crash has completed: the download that was being written
\* when the first run crashed was reported AlreadyPresent.
C17_Witness ==
    /\ AfterCrash
    /\ phase = "completed"
    /\ \E i \in Tasks :
        /\ run_log[1].task_pc[i] = "get"
        /\ run_log[1].fs[FileOf(i)] = Truncated
        /\ result[i] = AlreadyPresent
        /\ fs[FileOf(i)] = Truncated

----------------------------------------------------------------------------
\* Properties of process_category as a whole (checked under SpecRun).

\* An answer that makes the retrieval fail: no response, or a non-200 status.
BadAnswer(a) == a.kind = "transport_error" \/ a.status # 200

\* C13: a retrieval that met a transport error or a non-200 response ends
\* without a successful tuple; after such a retrieval process_category ends
\* with no listing file written and no download queued or requested; and in
\* a successful run the listing file holds the listing before any GET is
\* issued.
C13_ListingSavedBeforeDownloads ==
    /\ (phase = "idle" /\ Terminated
            /\ \E k \in 1..Len(posts) : BadAnswer(posts[k].answer))
        => (pg_pc = "raised" \/ ~retval.status)
    /\ (phase # "idle" /\ ~retrieval.status)
        => /\ phase \in {"retrieved", "returned", "raised"}
           /\ listing_file = NoFile
           /\ download_tasks = <<>>
           /\ gets = <<>>
           /\ \A f \in FileNames : fs[f] = Absent
    /\ (\E i \in Tasks : gets[i] > 0)
        => (retrieval.status /\ listing_file = Saved(retrieval.plugins))

\* process_category has returned on a failed retrieval.
C13_Witness ==
    /\ phase = "returned"
    /\ ~retrieval.status
    /\ retrieval.error \in ErrTexts

====
